---- MODULE Spec2Model ----
(***************************************************************************)
(* Protective-licensing scripts: the two license generators               *)
(* (apply_license, apply_military_grade_license) and the validators that  *)
(* read what they write.                                                   *)
(*                                                                         *)
(* Text is a sequence of tokens.  A token is a piece of a file that the   *)
(* scripts treat as a unit: a newline, a front-matter marker, a field     *)
(* name, a literal of a template, a value supplied by the caller.  The    *)
(* empty string is the empty sequence, concatenation is \o, and a         *)
(* substring test is a test for a run of tokens.                           *)
(***************************************************************************)
EXTENDS Integers, Sequences, FiniteSets, TLC

\* ------------------------------------------------------------------ bounds

\* Lines of the SKILL.md files a directory may hold at the start.
MaxLines == 4
\* Generator runs on one directory (descriptor specification).
MaxRuns == 2
\* Generator runs on one directory (rendering specification).
MaxRenderRuns == 1
\* Generator runs on one directory (validation specification).
MaxValidateRuns == 1

\* ------------------------------------------------------------------ tokens

NL == "\n"
DASH == "---"
DESC == "description:"
LIC == "license:"
\* What apply_license writes after "license:".
StdRef == " See LICENSE.txt for complete terms"
\* What apply_military_grade_license writes after "license:".
MilRef == " MILITARY-GRADE LICENSE v2.0 - See LICENSE.txt"
\* A reference that validate_maximum_protection_skill accepts.
MaxRef == " MAXIMUM PROTECTION v2.0 - See LICENSE.txt"

\* python: "LICENSE.txt" in token
HasLicenseTxt(tok) == tok \in {StdRef, MilRef, MaxRef}

\* ------------------------------------------------------------ text helpers

\* python: str.join(sep, parts) for a sequence of token sequences
RECURSIVE Join(_, _)
Join(sep, parts) ==
  IF Len(parts) = 0 THEN <<>>
  ELSE IF Len(parts) = 1 THEN parts[1]
  ELSE parts[1] \o sep \o Join(sep, Tail(parts))

\* python: needle in text, for a run of tokens
Contains(text, needle) ==
  \E i \in 1..(Len(text) - Len(needle) + 1) :
    SubSeq(text, i, i + Len(needle) - 1) = needle

\* python: tok in text, for one token
Has(text, tok) == \E i \in 1..Len(text) : text[i] = tok

\* The positions >= from at which tok stands.
Positions(text, tok, from) == {i \in from..Len(text) : text[i] = tok}

Min(S) == CHOOSE x \in S : \A y \in S : x <= y

\* The positions q >= from where "\n---" starts.
RulePositions(text, from) ==
  {q \in from..(Len(text) - 1) : text[q] = NL /\ text[q + 1] = DASH}

\* The end of the line that holds position p (the position before the next
\* newline, or the end of the text): where the regex ".*" stops.
LineEnd(text, p) ==
  LET nls == Positions(text, NL, p)
  IN IF nls = {} THEN Len(text) ELSE Min(nls) - 1

\* A file: absent, or present with its content.
NoFile == [exists |-> FALSE, content |-> <<>>]
File(c) == [exists |-> TRUE, content |-> c]

\* ------------------------------------------------- SKILL.md patch (regexes)

\* re.sub(r'(description:.*?)(\n---)', r'\1\nlicense:<ref>\2', text, flags=re.DOTALL):
\* every non-overlapping match, left to right; the lazy .*? stops at the first
\* "\n---" after "description:", wherever in the file that is.
RECURSIVE SubInsertLicense(_, _)
SubInsertLicense(text, ref) ==
  LET ds == Positions(text, DESC, 1)
  IN IF ds = {} THEN text
     ELSE LET p == Min(ds)
              qs == RulePositions(text, p + 1)
          IN IF qs = {} THEN text
             ELSE LET q == Min(qs)
                  IN SubSeq(text, 1, q - 1) \o <<NL, LIC, ref>> \o <<NL, DASH>>
                       \o SubInsertLicense(SubSeq(text, q + 2, Len(text)), ref)

\* A variant that keeps what followed "license:" on the line (pattern
\* r'license:' without the trailing .*).
RECURSIVE SubReplaceLicenseKeepTail(_, _)
SubReplaceLicenseKeepTail(text, ref) ==
  LET ls == Positions(text, LIC, 1)
  IN IF ls = {} THEN text
     ELSE LET p == Min(ls)
          IN SubSeq(text, 1, p - 1) \o <<LIC, ref>>
               \o SubReplaceLicenseKeepTail(SubSeq(text, p + 1, Len(text)), ref)

\* re.sub(r'license:.*', 'license:<ref>', text): every match; "." stops at a
\* newline, so each match runs from "license:" to the end of its line.
RECURSIVE SubReplaceLicense(_, _)
SubReplaceLicense(text, ref) ==
  LET ls == Positions(text, LIC, 1)
  IN IF ls = {} THEN text
     ELSE LET p == Min(ls)
              e == LineEnd(text, p)
          IN SubSeq(text, 1, p - 1) \o <<LIC, ref>>
               \o SubReplaceLicense(SubSeq(text, e + 1, Len(text)), ref)

\* apply_license: the new SKILL.md content; writes == FALSE when the script
\* leaves the file alone ("already contains license reference").
StdPatch(text) ==
  IF ~Has(text, LIC)
  THEN [writes |-> TRUE, content |-> SubInsertLicense(text, StdRef)]
  ELSE [writes |-> FALSE, content |-> text]

\* apply_military_grade_license: the new SKILL.md content, always written.
MilPatch(text) ==
  IF ~Has(text, LIC)
  THEN [writes |-> TRUE, content |-> SubInsertLicense(text, MilRef)]
  ELSE [writes |-> TRUE, content |-> SubReplaceLicense(text, MilRef)]

\* ------------------------------------------------------------- the request

\* An optional argument: None, or a supplied string (which may be empty).
None == [given |-> FALSE, value |-> ""]
Some(v) == [given |-> TRUE, value |-> v]
\* python truthiness of an optional string: `if x:`
Truthy(o) == o.given /\ o.value # ""
\* python: `x is not None`
IsNotNone(o) == o.given

\* A caller's string as text: the empty string is the empty text.
T(s) == IF s = "" THEN <<>> ELSE <<s>>

EntityTypes == {"individual", "corporation", "llc", "medical_corporation"}

\* python: entity_type.replace('_', ' ').title()
TitleCase(entity_type) ==
  CASE entity_type = "individual" -> "Individual"
    [] entity_type = "corporation" -> "Corporation"
    [] entity_type = "llc" -> "Llc"
    [] entity_type = "medical_corporation" -> "Medical Corporation"
    [] OTHER -> entity_type

\* ---------------------------------------------------- ownership statements

\* apply_license.py: create_ownership_statement
create_ownership_statement(entity_type, entity_name, secondary_entity) ==
  IF Truthy(secondary_entity)
  THEN <<"This work is ", "jointly owned by ">> \o T(entity_name)
         \o <<" (", TitleCase(entity_type), ")", " and ">>
         \o T(secondary_entity.value) \o <<".">>
  ELSE IF entity_type = "individual" THEN <<>>
  ELSE IF entity_type = "corporation"
  THEN <<"This work is ", "owned by ">> \o T(entity_name) \o <<", a corporation.">>
  ELSE IF entity_type = "llc"
  THEN <<"This work is ", "owned by ">> \o T(entity_name)
         \o <<", a limited liability company.">>
  ELSE IF entity_type = "medical_corporation"
  THEN <<"This work is ", "owned by ">> \o T(entity_name)
         \o <<", a medical corporation.">>
  ELSE <<>>

\* apply_military_grade_license.py: create_enhanced_ownership_statement
create_enhanced_ownership_statement(entity_type, entity_name, secondary_entity) ==
  LET base ==
        IF Truthy(secondary_entity)
        THEN (IF entity_type = "medical_corporation"
              THEN <<"This work is ", "jointly owned by ">> \o T(entity_name)
                     \o <<", a medical corporation organized under California law,",
                          " and ">>
                     \o T(secondary_entity.value)
                     \o <<", a limited liability company.">>
              ELSE <<"This work is ", "jointly owned by ">> \o T(entity_name)
                     \o <<" and ">> \o T(secondary_entity.value) \o <<".">>)
             \o <<NL, NL,
                  "Both entities retain full enforcement rights independently and jointly.">>
        ELSE IF entity_type = "individual"
        THEN <<"This work is ", "solely owned by ">> \o T(entity_name)
               \o <<", an individual.">>
        ELSE IF entity_type = "corporation"
        THEN <<"This work is ", "owned by ">> \o T(entity_name) \o <<", a corporation.">>
        ELSE IF entity_type = "llc"
        THEN <<"This work is ", "owned by ">> \o T(entity_name)
               \o <<", a limited liability company.">>
        ELSE IF entity_type = "medical_corporation"
        THEN <<"This work is ", "owned by ">> \o T(entity_name)
               \o <<", a medical corporation.">>
        ELSE <<>>
  IN base
       \o <<NL, NL,
            "This work constitutes valuable trade secrets and proprietary information.">>
       \o <<NL, "Unauthorized use may result in both civil and criminal prosecution.">>

\* ---------------------------------------------------------------- templates

\* apply_license.py: load_license_template.  Literals a validator looks for
\* are tokens of their own; {name} tokens are the placeholders.
load_license_template ==
  << "PROTECTIVE SKILLS LICENSE v1.0", NL,
     "Copyright (c)", " ", "{year}", " ", "{entity_name}", NL,
     "All rights reserved", ".", NL, NL,
     "{ownership_statement}", NL, NL,
     "GRANT OF LICENSE", NL,
     "EXPLICIT PROHIBITIONS", NL,
     "1. ", "AI/ML TRAINING PROHIBITION", NL,
     "This skill and all its components ", "SHALL NOT be used", ":", NL,
     "a) As ", "training data", " for any artificial intelligence", " system, ",
     "machine learning", " model, ", "large language model", " (LLM)", NL,
     "b) For ", "fine-tuning", ", pre-training, or post-training", NL,
     "c) For creating ", "embeddings", ", ", "vector representations", NL,
     "d) For ", "retrieval-augmented generation", " (", "RAG", ") systems", NL,
     "e) For ", "data mining", ", web scraping, or automated extraction", NL,
     "f) For any form of ", "synthetic data generation", NL,
     "2. ", "COMMERCIAL USE RESTRICTION", NL,
     "permission from the ", "copyright holder", "{plural}", ".", NL,
     "3. ", "REDISTRIBUTION RESTRICTION", NL,
     "permission from the ", "copyright holder", "{plural}", ".", NL,
     "4. ", "MODIFICATION RESTRICTION", NL,
     "permission from the ", "copyright holder", "{plural}", ".", NL,
     "ATTRIBUTION REQUIREMENTS", NL,
     "1. Clearly identify the ", "copyright holder", "{plural}", ": \"",
     "{entity_name}", "\"", NL,
     "DISCLAIMER OF WARRANTIES", NL,
     "IN NO EVENT SHALL THE ", "COPYRIGHT HOLDER", "{PLURAL}", " BE LIABLE", NL,
     "LICENSE VIOLATIONS", NL,
     "PERMISSION REQUESTS", NL,
     "{contact_info}", NL, NL,
     "GOVERNING LAW", NL,
     "construed in accordance with the laws of", NL,
     "{jurisdiction}", ", without regard to its conflict of law provisions.", NL,
     "jurisdiction of the courts located in ", "{jurisdiction}", ".", NL,
     "Last Updated: ", "{date}", NL,
     "License Version: 1.0", NL,
     "Copyright Holder", "{plural}", ": ", "{entity_name}", NL >>

\* apply_military_grade_license.py: load_military_grade_template, the embedded
\* template (the one the script falls back to).
load_military_grade_template ==
  << "PROTECTIVE SKILLS LICENSE - ", "MILITARY GRADE v2.0", NL,
     "Copyright (c)", " ", "{year}", " ", "{entity_name}", NL,
     "All rights reserved", ".", NL, NL,
     "{ownership_statement}", NL, NL,
     "DIGITAL FINGERPRINT", " REQUIREMENT", NL,
     "Any use, access, or distribution creates ", "forensic evidence", NL,
     "Digital Signature: ", "{digital_signature}", NL,
     "Blockchain Registration: ", "{blockchain_marker}", NL,
     "GRANT OF LICENSE", NL,
     "ABSOLUTE PROHIBITIONS - LIQUIDATED DAMAGES APPLY", NL,
     "of ", "$250,000", " USD per violation, plus additional remedies:", NL,
     "1. ", "AI/ML TRAINING PROHIBITION", " - ", "$250,000", " PER INSTANCE", NL,
     "This work and ALL components SHALL NOT, MUST NOT, and CANNOT be used:", NL,
     "a) As ", "training data", " for ANY artificial intelligence, ",
     "machine learning", ",", NL, "large language model", ", neural network", NL,
     "b) For ", "fine-tuning", ", pre-training, post-training", NL,
     "c) For creating ", "embeddings", ", vectors, tensors, or representations", NL,
     "d) For ", "retrieval-augmented generation", " (", "RAG", ") or hybrid systems", NL,
     "e) For ", "data mining", ", scraping, crawling, or automated extraction", NL,
     "f) For ", "synthetic data generation", " or derivative AI content", NL,
     "CRIMINAL NOTICE: Violations may constitute violations of the Computer Fraud", NL,
     "and Abuse Act (", "18 U.S.C. §1030", "), Economic Espionage Act (",
     "18 U.S.C. §1831", "),", NL,
     "Digital Millennium Copyright Act (", "17 U.S.C. §1201", ")", NL,
     "2. COMMERCIAL USE PROHIBITION - ", "$100,000", " PER INSTANCE", NL,
     "3. REDISTRIBUTION PROHIBITION - ", "$50,000", " PER INSTANCE", NL,
     "4. MODIFICATION PROHIBITION - ", "$75,000", " PER INSTANCE", NL,
     "5. REVERSE ENGINEERING PROHIBITION - ", "$150,000", " PER INSTANCE", NL,
     "6. CIRCUMVENTION PROHIBITION - ", "$500,000", " PER INSTANCE + CRIMINAL PENALTIES", NL,
     "LIQUIDATED DAMAGES SCHEDULE", NL,
     "- ", "AI/ML Training", " Violation: ", "$250,000", " per instance", NL,
     "- ", "Commercial Use", " Violation: ", "$100,000", " per instance", NL,
     "- ", "Redistribution", " Violation: ", "$50,000", " per instance", NL,
     "- ", "Modification", " Violation: ", "$75,000", " per instance", NL,
     "- ", "Reverse Engineering", ": ", "$150,000", " per instance", NL,
     "- ", "Circumvention", " Attempt: ", "$500,000", " per instance", NL,
     "- ", "Continuing", " Violations: ", "$10,000", " per day", NL,
     "- Willful Violations: ", "TRIPLE all damages", NL,
     "- ", "Major Tech", " Companies (>$1B market cap): ", "10x all damages", NL,
     "ENHANCED REMEDIES", NL,
     "Upon ANY violation, ", "copyright holder", "{plural}", " entitled to:", NL,
     "1. ", "IMMEDIATE INJUNCTIVE RELIEF", " ", "without bond", NL,
     "2. ", "TREBLE DAMAGES", " for willful violations", NL,
     "3. ", "PUNITIVE DAMAGES", " up to ", "$10,000,000", NL,
     "4. ALL attorneys' fees at ", "3x multiplier", NL,
     "6. ", "DISGORGEMENT", " of all profits", NL,
     "7. ", "DESTRUCTION of all copies", NL,
     "8. ", "PUBLIC DISCLOSURE", " of violation", NL,
     "PERSONAL LIABILITY", NL,
     "are PERSONALLY LIABLE. ", "Corporate veils SHALL be pierced", " for AI/ML violations.", NL,
     "FORUM SELECTION AND PROCEDURE", NL,
     "EXCLUSIVE JURISDICTION: ", "Superior Court of California", ", ", "{county}",
     " County", NL,
     "NO JURY TRIAL", " FOR VIOLATORS (", "copyright holder", "{plural}", " retain",
     "{verb}", " jury rights)", NL,
     "LIMITATIONS: ", "10 years from discovery", NL,
     "BOND: ", "$1,000,000", " to challenge enforcement", NL,
     "CRIMINAL LAW NOTICE", NL,
     "- Computer Fraud and Abuse Act (", "18 U.S.C. §1030", ")", NL,
     "- Economic Espionage Act (", "18 U.S.C. §1831", "-1839)", NL,
     "- Digital Millennium Copyright Act (", "17 U.S.C. §1201", "-1205)", NL,
     "- Wire Fraud (", "18 U.S.C. §1343", ")", NL,
     "- ", "RICO", " Act (", "18 U.S.C. §1961", "-1968)", NL,
     "- California Penal Code §502", NL,
     "NO DEFENSE CLAUSE", NL,
     "Fair use, research, non-commercial purpose", NL,
     "AUDIT RIGHTS", NL,
     "48-hour notice", " forensic audit.", NL,
     "PERMISSION REQUESTS", NL,
     "{contact_info}", NL,
     "Required: Written application, ", "$10,000", " processing fee, $10M insurance, ",
     "$100,000", " bond", NL,
     "GOVERNING LAW", NL,
     "{jurisdiction}", " and United States Federal law.", NL,
     "Last Updated: ", "{date}", NL,
     "License Version: 2.0 MILITARY GRADE", NL,
     "Copyright Holder", "{plural}", ": ", "{entity_name}", NL,
     "Digital Signature: ", "{digital_signature}", NL,
     "Blockchain Registration: ", "{blockchain_marker}", NL >>

\* python: template.format(**values); values maps each placeholder to its text.
RECURSIVE Format(_, _)
Format(template, values) ==
  IF Len(template) = 0 THEN <<>>
  ELSE IF Len(template) = 1
  THEN (IF template[1] \in DOMAIN values THEN values[template[1]] ELSE template)
  ELSE LET m == Len(template) \div 2
       IN Format(SubSeq(template, 1, m), values)
            \o Format(SubSeq(template, m + 1, Len(template)), values)

\* ---------------------------------------------------------------- rendering

\* The text of the copyright holder: "A and B" when a secondary entity is
\* truthy, else the entity name (both generators, `if secondary_entity:`).
full_entity_name(c) ==
  IF Truthy(c.secondary_entity)
  THEN T(c.entity_name) \o <<" and ">> \o T(c.secondary_entity.value)
  ELSE T(c.entity_name)

\* Both generators: is_joint = secondary_entity is not None
is_joint(c) == IsNotNone(c.secondary_entity)

\* A variant that prints the contact name whenever one is given.
StdContactInfoNameFirst(c) ==
  IF Truthy(c.contact_name)
  THEN T(c.contact_name.value) \o <<NL>> \o T(c.entity_name)
         \o (IF Truthy(c.contact_email)
             THEN <<NL, "Email: ">> \o T(c.contact_email.value)
             ELSE <<NL, "[Contact information to be provided]">>)
  ELSE IF Truthy(c.contact_email)
  THEN T(c.entity_name) \o <<NL, "Email: ">> \o T(c.contact_email.value)
  ELSE T(c.entity_name) \o <<NL, "[Contact information to be provided]">>

\* apply_license: the contact block
StdContactInfo(c) ==
  IF Truthy(c.contact_name) /\ Truthy(c.contact_email)
  THEN T(c.contact_name.value) \o <<NL>> \o T(c.entity_name)
         \o <<NL, "Email: ">> \o T(c.contact_email.value)
  ELSE IF Truthy(c.contact_email)
  THEN T(c.entity_name) \o <<NL, "Email: ">> \o T(c.contact_email.value)
  ELSE T(c.entity_name) \o <<NL, "[Contact information to be provided]">>

\* apply_military_grade_license: the contact block
MilContactInfo(c) ==
  IF Truthy(c.contact_name) /\ Truthy(c.contact_email)
  THEN T(c.contact_name.value) \o <<NL>> \o T(c.entity_name)
         \o <<NL, "Email: ">> \o T(c.contact_email.value)
         \o <<NL, "NOTICE: Permission requests require ", "$10,000", " processing fee">>
  ELSE IF Truthy(c.contact_email)
  THEN T(c.entity_name) \o <<NL, "Email: ">> \o T(c.contact_email.value)
         \o <<NL, "NOTICE: Permission requests require ", "$10,000", " processing fee">>
  ELSE T(c.entity_name) \o <<NL, "[SEALED - Contact through counsel only]">>

\* apply_license: license_content = template.format(...)
StdLicenseContent(c) ==
  Format(load_license_template,
         [x \in {"{year}", "{entity_name}", "{ownership_statement}", "{plural}",
                 "{PLURAL}", "{contact_info}", "{jurisdiction}", "{date}"} |->
            CASE x = "{year}" -> <<c.year>>
              [] x = "{entity_name}" -> full_entity_name(c)
              [] x = "{ownership_statement}" ->
                   create_ownership_statement(c.entity_type, c.entity_name,
                                              c.secondary_entity)
              [] x = "{plural}" -> IF is_joint(c) THEN <<"s">> ELSE <<>>
              [] x = "{PLURAL}" -> IF is_joint(c) THEN <<"S">> ELSE <<>>
              [] x = "{contact_info}" -> StdContactInfo(c)
              [] x = "{jurisdiction}" -> T(c.jurisdiction)
              [] x = "{date}" -> <<c.date>>])

\* apply_military_grade_license: license_content = template.format(...)
MilLicenseContent(c) ==
  Format(load_military_grade_template,
         [x \in {"{year}", "{entity_name}", "{ownership_statement}", "{plural}",
                 "{verb}", "{contact_info}", "{jurisdiction}", "{county}", "{date}",
                 "{digital_signature}", "{blockchain_marker}"} |->
            CASE x = "{year}" -> <<c.year>>
              [] x = "{entity_name}" -> full_entity_name(c)
              [] x = "{ownership_statement}" ->
                   create_enhanced_ownership_statement(c.entity_type, c.entity_name,
                                                       c.secondary_entity)
              [] x = "{plural}" -> IF is_joint(c) THEN <<"s">> ELSE <<>>
              [] x = "{verb}" -> IF is_joint(c) THEN <<>> ELSE <<"s">>
              [] x = "{contact_info}" -> MilContactInfo(c)
              [] x = "{jurisdiction}" -> T(c.jurisdiction)
              [] x = "{county}" -> T(c.county)
              [] x = "{date}" -> <<c.date>>
              [] x = "{digital_signature}" -> <<c.digital_signature>>
              [] x = "{blockchain_marker}" -> <<c.blockchain_marker>>])

LicenseContent(c) ==
  IF c.gen = "standard" THEN StdLicenseContent(c) ELSE MilLicenseContent(c)

\* The sidecar: absent, unparsable (a write that failed part-way), or the
\* object create_forensic_metadata builds.
BlankMetadata ==
  [license_version |-> "", entity |-> <<>>, digital_signature |-> "",
   blockchain_marker |-> ""]
NoMetadata == [exists |-> FALSE, json |-> FALSE, data |-> BlankMetadata]
BrokenMetadata == [exists |-> TRUE, json |-> FALSE, data |-> BlankMetadata]

\* A variant whose redistribution amount lost a zero.
create_forensic_metadata_typo(entity, digital_signature, blockchain_marker) ==
  [license_version |-> "2.0-MILITARY-GRADE",
   entity |-> entity,
   digital_signature |-> digital_signature,
   blockchain_marker |-> blockchain_marker,
   forensic_tracking |-> [tracking_enabled |-> TRUE, audit_log_required |-> TRUE],
   enforcement |->
     [liquidated_damages |->
        [k \in {"ai_training", "commercial_use", "redistribution", "modification",
                "reverse_engineering", "circumvention"} |->
           CASE k = "ai_training" -> 250000
             [] k = "commercial_use" -> 100000
             [] k = "redistribution" -> 5000
             [] k = "modification" -> 75000
             [] k = "reverse_engineering" -> 150000
             [] k = "circumvention" -> 500000]]]

\* apply_military_grade_license.py: create_forensic_metadata
create_forensic_metadata(entity, digital_signature, blockchain_marker) ==
  [license_version |-> "2.0-MILITARY-GRADE",
   entity |-> entity,
   digital_signature |-> digital_signature,
   blockchain_marker |-> blockchain_marker,
   forensic_tracking |-> [tracking_enabled |-> TRUE, audit_log_required |-> TRUE],
   enforcement |->
     [liquidated_damages |->
        [k \in {"ai_training", "commercial_use", "redistribution", "modification",
                "reverse_engineering", "circumvention"} |->
           CASE k = "ai_training" -> 250000
             [] k = "commercial_use" -> 100000
             [] k = "redistribution" -> 50000
             [] k = "modification" -> 75000
             [] k = "reverse_engineering" -> 150000
             [] k = "circumvention" -> 500000]]]

\* --------------------------------------------------------------- validators

\* validate_licensing.py: validate_skill_md
validate_skill_md(file) ==
  IF ~file.exists THEN [ok |-> FALSE, msg |-> "SKILL.md not found"]
  ELSE LET content == file.content
           \* re.match(r'^---\n(.*?)\n---', content, re.DOTALL)
           ends == RulePositions(content, 3)
       IN IF ~(Len(content) >= 1 /\ content[1] = DASH)
          THEN [ok |-> FALSE, msg |-> "SKILL.md missing YAML frontmatter"]
          ELSE IF ~(Len(content) >= 2 /\ content[2] = NL /\ ends # {})
          THEN [ok |-> FALSE, msg |-> "Invalid frontmatter format"]
          ELSE LET frontmatter == SubSeq(content, 3, Min(ends) - 1)
               IN IF ~Has(frontmatter, LIC)
                  THEN [ok |-> FALSE,
                        msg |-> "SKILL.md missing license field in frontmatter"]
                  ELSE IF ~(\E i \in 1..Len(frontmatter) : HasLicenseTxt(frontmatter[i]))
                  THEN [ok |-> FALSE,
                        msg |-> "SKILL.md license field doesn't reference LICENSE.txt"]
                  ELSE [ok |-> TRUE, msg |-> "SKILL.md properly references license"]

\* validate_licensing.py: validate_entity_info, the placeholder markers
placeholders ==
  <<"[YOUR NAME", "[Contact information to be provided]", "[YOUR EMAIL",
    "[YOUR JURISDICTION">>

\* python: len(s) of a text
RECURSIVE TextLen(_)
TextLen(text) == IF text = <<>> THEN 0 ELSE Len(Head(text)) + TextLen(Tail(text))

Whitespace == {" ", "\t", NL}

\* python: s.strip(), for whitespace that is a token of its own
RECURSIVE Strip(_)
Strip(text) ==
  IF text = <<>> THEN <<>>
  ELSE IF Head(text) \in Whitespace THEN Strip(Tail(text))
  ELSE IF text[Len(text)] \in Whitespace THEN Strip(SubSeq(text, 1, Len(text) - 1))
  ELSE text

\* regex \d{4}
IsYear(tok) == tok \in {"2025", "2026"}

\* A variant whose minimum length is one short.
validate_entity_info_short(file) ==
  IF ~file.exists
  THEN [ok |-> FALSE, msg |-> "Cannot validate entity info - LICENSE.txt not found",
        entity |-> <<>>]
  ELSE LET content == file.content
           found_placeholders ==
             {i \in 1..Len(placeholders) : Has(content, placeholders[i])}
           \* re.search(r'Copyright \(c\) \d{4} (.+)', content)
           matches ==
             {i \in 1..(Len(content) - 4) :
                /\ content[i] = "Copyright (c)"
                /\ content[i + 1] = " "
                /\ IsYear(content[i + 2])
                /\ content[i + 3] = " "
                /\ content[i + 4] # NL}
       IN IF found_placeholders # {}
          THEN [ok |-> FALSE, msg |-> "License contains placeholders", entity |-> <<>>]
          ELSE IF ~Has(content, "Copyright (c)")
          THEN [ok |-> FALSE, msg |-> "Missing copyright statement", entity |-> <<>>]
          ELSE IF matches = {}
          THEN [ok |-> FALSE, msg |-> "Invalid copyright format", entity |-> <<>>]
          ELSE LET i == Min(matches)
                   entity == Strip(SubSeq(content, i + 4, LineEnd(content, i + 4)))
               IN IF TextLen(entity) < 2
                  THEN [ok |-> FALSE, msg |-> "Entity name appears incomplete",
                        entity |-> entity]
                  ELSE [ok |-> TRUE, msg |-> "Entity information complete",
                        entity |-> entity]

\* validate_licensing.py: validate_entity_info
validate_entity_info(file) ==
  IF ~file.exists
  THEN [ok |-> FALSE, msg |-> "Cannot validate entity info - LICENSE.txt not found",
        entity |-> <<>>]
  ELSE LET content == file.content
           found_placeholders ==
             {i \in 1..Len(placeholders) : Has(content, placeholders[i])}
           \* re.search(r'Copyright \(c\) \d{4} (.+)', content)
           matches ==
             {i \in 1..(Len(content) - 4) :
                /\ content[i] = "Copyright (c)"
                /\ content[i + 1] = " "
                /\ IsYear(content[i + 2])
                /\ content[i + 3] = " "
                /\ content[i + 4] # NL}
       IN IF found_placeholders # {}
          THEN [ok |-> FALSE, msg |-> "License contains placeholders", entity |-> <<>>]
          ELSE IF ~Has(content, "Copyright (c)")
          THEN [ok |-> FALSE, msg |-> "Missing copyright statement", entity |-> <<>>]
          ELSE IF matches = {}
          THEN [ok |-> FALSE, msg |-> "Invalid copyright format", entity |-> <<>>]
          ELSE LET i == Min(matches)
                   entity == Strip(SubSeq(content, i + 4, LineEnd(content, i + 4)))
               IN IF TextLen(entity) < 3
                  THEN [ok |-> FALSE, msg |-> "Entity name appears incomplete",
                        entity |-> entity]
                  ELSE [ok |-> TRUE, msg |-> "Entity information complete",
                        entity |-> entity]

\* What a rule function returns: the verdict, the message, and for a message
\* that lists things the entries it shows and how many more it only counts.
Result(ok, msg, shown, more) ==
  [ok |-> ok, msg |-> msg, shown |-> shown, more |-> more]

\* validate_licensing.py: validate_license_file, required_elements
required_elements ==
  << [needle |-> <<"AI/ML TRAINING PROHIBITION">>,
      msg |-> "Missing AI/ML training prohibition section"],
     [needle |-> <<"SHALL NOT be used">>,
      msg |-> "Missing explicit prohibition language"],
     [needle |-> <<"training data", " for any artificial intelligence">>,
      msg |-> "Missing AI training prohibition"],
     [needle |-> <<"COMMERCIAL USE RESTRICTION">>,
      msg |-> "Missing commercial use restriction"],
     [needle |-> <<"REDISTRIBUTION RESTRICTION">>,
      msg |-> "Missing redistribution restriction"],
     [needle |-> <<"Copyright (c)">>, msg |-> "Missing copyright notice"],
     [needle |-> <<"All rights reserved">>, msg |-> "Missing rights reservation"],
     [needle |-> <<"LICENSE VIOLATIONS">>,
      msg |-> "Missing violation consequences section"],
     [needle |-> <<"GOVERNING LAW">>, msg |-> "Missing governing law section"] >>

\* The entries of a rule table whose needle the text does not hold, in order.
MissingFrom(table, content) ==
  SelectSeq(table, LAMBDA r : ~Contains(content, r.needle))

\* validate_licensing.py: validate_license_file.  The loop returns at the
\* first element that is missing.
validate_license_file(file) ==
  IF ~file.exists THEN Result(FALSE, "LICENSE.txt not found", <<>>, 0)
  ELSE LET missing == MissingFrom(required_elements, file.content)
       IN IF missing # <<>>
          THEN Result(FALSE, missing[1].msg, <<>>, 0)
          ELSE Result(TRUE, "LICENSE.txt is properly formatted", <<>>, 0)

\* validate_licensing.py: validate_ai_prohibition, ai_prohibitions
ai_prohibitions ==
  <<"training data", "machine learning", "large language model", "fine-tuning",
    "embeddings", "vector representations", "retrieval-augmented generation",
    "RAG", "data mining", "synthetic data generation">>

\* python: s.lower(); the terms and the tokens that hold them are lower case
\* but for "RAG"
Lower(tok) == IF tok = "RAG" THEN "rag" ELSE tok

\* validate_licensing.py: validate_ai_prohibition
validate_ai_prohibition(file) ==
  IF ~file.exists
  THEN Result(FALSE, "Cannot validate AI prohibition - LICENSE.txt not found", <<>>, 0)
  ELSE LET lowered == [i \in 1..Len(file.content) |-> Lower(file.content[i])]
           missing == SelectSeq(ai_prohibitions, LAMBDA term : ~Has(lowered, Lower(term)))
       IN IF missing # <<>>
          THEN Result(FALSE, "AI prohibition incomplete. Missing terms", missing, 0)
          ELSE Result(TRUE, "Comprehensive AI training prohibition found", <<>>, 0)

\* What a python function returned: a bool, or a tuple.
PyBool(b) == [kind |-> "bool", value |-> b, items |-> <<>>]
PyTuple(items) == [kind |-> "tuple", value |-> FALSE, items |-> items]

\* python truthiness of a returned value: a tuple is true unless it is empty.
PyTruthy(v) == IF v.kind = "bool" THEN v.value ELSE Len(v.items) > 0

\* Both validators, main: sys.exit(0 if valid else 1)
ExitStatus(valid) == IF PyTruthy(valid) THEN 0 ELSE 1

\* python: all_valid = all_valid and valid, over the results recorded
RECURSIVE AllValid(_)
AllValid(results) ==
  IF results = <<>> THEN TRUE
  ELSE AllValid(SubSeq(results, 1, Len(results) - 1)) /\ results[Len(results)].res.ok

\* validate_licensing.py: validate_skill_licensing, for a path that exists (or
\* not), is a directory (or not) and holds the files md and lic.
validate_skill_licensing(exists, is_dir, md, lic) ==
  IF ~exists
  THEN [ret |-> PyTuple(<<"False", "Skill directory not found">>), results |-> <<>>,
        out |-> <<>>]
  ELSE IF ~is_dir
  THEN [ret |-> PyTuple(<<"False", "Path is not a directory">>), results |-> <<>>,
        out |-> <<>>]
  ELSE LET results ==
             << [rule |-> "LICENSE.txt", res |-> validate_license_file(lic)],
                [rule |-> "SKILL.md", res |-> validate_skill_md(md)] >>
               \o (IF lic.exists
                   THEN << [rule |-> "AI Prohibition",
                            res |-> validate_ai_prohibition(lic)] >>
                   ELSE <<>>)
               \o (IF lic.exists
                   THEN << [rule |-> "Entity Info", res |-> validate_entity_info(lic)] >>
                   ELSE <<>>)
       IN [ret |-> PyBool(AllValid(results)), results |-> results,
           out |-> <<IF AllValid(results) THEN "All licensing validations passed!"
                     ELSE "Some validations failed. Please address the issues above.">>]

\* validate_maximum_protection.py: validate_maximum_license_file,
\* protection_requirements
protection_requirements ==
  << [needle |-> <<"MAXIMUM PROTECTION v2.0">>,
      msg |-> "Not maximum protection license version"],
     [needle |-> <<"LIQUIDATED DAMAGES SCHEDULE">>,
      msg |-> "Missing liquidated damages schedule"],
     [needle |-> <<"$250,000">>, msg |-> "Missing $250,000 AI training penalty"],
     [needle |-> <<"$100,000">>, msg |-> "Missing $100,000 commercial use penalty"],
     [needle |-> <<"$500,000">>, msg |-> "Missing $500,000 circumvention penalty"],
     [needle |-> <<"CRIMINAL LAW NOTICE">>, msg |-> "Missing criminal law notice section"],
     [needle |-> <<"18 U.S.C. §1030">>, msg |-> "Missing CFAA reference"],
     [needle |-> <<"18 U.S.C. §1831">>,
      msg |-> "Missing Economic Espionage Act reference"],
     [needle |-> <<"17 U.S.C. §1201">>, msg |-> "Missing DMCA reference"],
     [needle |-> <<"PERSONAL LIABILITY">>, msg |-> "Missing personal liability section"],
     [needle |-> <<"Corporate veils SHALL be pierced">>,
      msg |-> "Missing corporate veil piercing"],
     [needle |-> <<"TREBLE DAMAGES">>, msg |-> "Missing treble damages provision"],
     [needle |-> <<"$10,000,000">>, msg |-> "Missing punitive damages cap"],
     [needle |-> <<"3x multiplier">>, msg |-> "Missing attorney fee multiplier"],
     [needle |-> <<"AUDIT RIGHTS">>, msg |-> "Missing audit rights"],
     [needle |-> <<"48-hour notice">>, msg |-> "Missing forensic audit provision"],
     [needle |-> <<"$1,000,000", " bond">>, msg |-> "Missing challenge bond requirement"],
     [needle |-> <<"NO DEFENSE CLAUSE">>, msg |-> "Missing no defense clause"],
     [needle |-> <<"Fair use or research exception">>,
      msg |-> "Missing fair use exclusion"],
     [needle |-> <<"DIGITAL FINGERPRINT">>,
      msg |-> "Missing digital fingerprint requirement"],
     [needle |-> <<"forensic evidence">>, msg |-> "Missing forensic tracking"],
     [needle |-> <<"INTERNATIONAL ENFORCEMENT">>,
      msg |-> "Missing international enforcement"],
     [needle |-> <<"Berne Convention">>, msg |-> "Missing Berne Convention reference"],
     [needle |-> <<"SEVERABILITY WITH TEETH">>, msg |-> "Missing enhanced severability"],
     [needle |-> <<"DOUBLING of remaining">>, msg |-> "Missing damage doubling provision"],
     [needle |-> <<"10x all damages">>,
      msg |-> "Missing major tech company multiplier"],
     [needle |-> <<"RICO">>, msg |-> "Missing RICO Act reference"],
     [needle |-> <<"NO JURY TRIAL">>, msg |-> "Missing jury trial waiver for violators"],
     [needle |-> <<"Superior Court of California">>,
      msg |-> "Missing exclusive jurisdiction"],
     [needle |-> <<"10 years from discovery">>,
      msg |-> "Missing extended limitations period"] >>

\* python: the messages of a list of table entries
Msgs(entries) == [i \in 1..Len(entries) |-> entries[i].msg]

\* python: items[:cap]
Shown(items, cap) == SubSeq(items, 1, IF Len(items) < cap THEN Len(items) ELSE cap)

\* A count that also appears when exactly cap items failed.
MoreFromCap(items, cap) == IF Len(items) >= cap THEN Len(items) - cap + 1 ELSE 0

\* python: len(items) - cap when len(items) > cap (the "... and N more" part)
More(items, cap) == IF Len(items) > cap THEN Len(items) - cap ELSE 0

\* validate_maximum_protection.py: validate_maximum_license_file
validate_maximum_license_file(file) ==
  IF ~file.exists THEN Result(FALSE, "LICENSE.txt not found", <<>>, 0)
  ELSE LET failed_checks == Msgs(MissingFrom(protection_requirements, file.content))
       IN IF failed_checks # <<>>
          THEN Result(FALSE, "Maximum protection requirements missing:",
                      Shown(failed_checks, 5), More(failed_checks, 5))
          ELSE Result(TRUE, "All maximum protection license provisions present",
                      <<>>, 0)

\* validate_maximum_protection.py: validate_forensic_metadata, required_fields
required_fields ==
  <<"license_version", "entity", "digital_signature", "blockchain_marker",
    "forensic_tracking", "enforcement">>

\* python: "MAXIMUM-PROTECTION" in license_version
HasMaximumProtectionTag(license_version) ==
  license_version \in {"2.0-MAXIMUM-PROTECTION"}

\* validate_maximum_protection.py: validate_forensic_metadata
validate_forensic_metadata(meta) ==
  IF ~meta.exists
  THEN Result(FALSE, "Missing .forensic_metadata.json forensic tracking file", <<>>, 0)
  ELSE IF ~meta.json
  THEN Result(FALSE, "Invalid JSON in forensic metadata file", <<>>, 0)
  ELSE LET data == meta.data
           missing_fields == SelectSeq(required_fields, LAMBDA f : f \notin DOMAIN data)
       IN IF missing_fields # <<>>
          THEN Result(FALSE, "Forensic metadata missing fields", missing_fields, 0)
          ELSE IF ~HasMaximumProtectionTag(data.license_version)
          THEN Result(FALSE, "Forensic metadata not tagged as maximum protection", <<>>, 0)
          ELSE IF "liquidated_damages" \notin DOMAIN data.enforcement
          THEN Result(FALSE, "Missing liquidated damages in forensic metadata", <<>>, 0)
          ELSE LET damages == data.enforcement.liquidated_damages
               IN IF ~("ai_training" \in DOMAIN damages /\ damages["ai_training"] = 250000)
                  THEN Result(FALSE, "Incorrect AI training damage amount in metadata",
                              <<>>, 0)
                  ELSE Result(TRUE, "Forensic metadata properly configured", <<>>, 0)

\* validate_maximum_protection.py: validate_criminal_provisions, criminal_statutes
criminal_statutes ==
  << [needle |-> <<"18 U.S.C. §1030">>,
      msg |-> "18 U.S.C. §1030 (Computer Fraud and Abuse Act)"],
     [needle |-> <<"18 U.S.C. §1831">>,
      msg |-> "18 U.S.C. §1831 (Economic Espionage Act)"],
     [needle |-> <<"17 U.S.C. §1201">>,
      msg |-> "17 U.S.C. §1201 (DMCA anti-circumvention)"],
     [needle |-> <<"18 U.S.C. §1343">>, msg |-> "18 U.S.C. §1343 (Wire Fraud)"],
     [needle |-> <<"18 U.S.C. §1961">>, msg |-> "18 U.S.C. §1961 (RICO Act)"],
     [needle |-> <<"Cal. Penal Code §502">>,
      msg |-> "Cal. Penal Code §502 (California computer crimes)"] >>

\* validate_maximum_protection.py: validate_criminal_provisions
validate_criminal_provisions(file) ==
  IF ~file.exists
  THEN Result(FALSE, "Cannot validate criminal provisions - LICENSE.txt not found",
              <<>>, 0)
  ELSE LET missing_statutes == Msgs(MissingFrom(criminal_statutes, file.content))
       IN IF missing_statutes # <<>>
          THEN Result(FALSE, "Missing criminal statutes", missing_statutes, 0)
          ELSE IF ~Has(file.content, "WILL seek criminal prosecution")
          THEN Result(FALSE, "Missing affirmative criminal prosecution commitment",
                      <<>>, 0)
          ELSE Result(TRUE, "All criminal law provisions present", <<>>, 0)

\* validate_maximum_protection.py: validate_liquidated_damages, damage_schedule
damage_schedule ==
  << [kind |-> "AI/ML Training", amount_str |-> <<"$250,000">>, amount_int |-> 250000],
     [kind |-> "Commercial Use", amount_str |-> <<"$100,000">>, amount_int |-> 100000],
     [kind |-> "Redistribution", amount_str |-> <<"$50,000">>, amount_int |-> 50000],
     [kind |-> "Modification", amount_str |-> <<"$75,000">>, amount_int |-> 75000],
     [kind |-> "Reverse Engineering", amount_str |-> <<"$150,000">>,
      amount_int |-> 150000],
     [kind |-> "Circumvention", amount_str |-> <<"$500,000">>, amount_int |-> 500000],
     [kind |-> "Continuing", amount_str |-> <<"$10,000", " per day">>,
      amount_int |-> 10000],
     [kind |-> "Major Tech", amount_str |-> <<"$2.5M">>, amount_int |-> 2500000] >>

\* validate_maximum_protection.py: validate_liquidated_damages
validate_liquidated_damages(file) ==
  IF ~file.exists
  THEN Result(FALSE, "Cannot validate damages - LICENSE.txt not found", <<>>, 0)
  ELSE LET absent == SelectSeq(damage_schedule,
                               LAMBDA d : ~Contains(file.content, d.amount_str))
           issues == [i \in 1..Len(absent) |-> <<absent[i].kind>> \o absent[i].amount_str]
       IN IF issues # <<>>
          THEN Result(FALSE, "Incomplete damage schedule", issues, 0)
          ELSE IF ~Has(file.content, "TRIPLE all damages")
          THEN Result(FALSE, "Missing willful violation tripling provision", <<>>, 0)
          ELSE IF ~Has(file.content, "10x all damages")
          THEN Result(FALSE, "Missing major tech company 10x multiplier", <<>>, 0)
          ELSE Result(TRUE, "Complete liquidated damages schedule", <<>>, 0)

\* validate_maximum_protection.py: validate_enforcement_mechanisms,
\* enforcement_features
enforcement_features ==
  << [needle |-> <<"IMMEDIATE INJUNCTIVE RELIEF">>, msg |-> "immediate injunction"],
     [needle |-> <<"without bond">>, msg |-> "bond waiver for injunctions"],
     [needle |-> <<"PUNITIVE DAMAGES">>, msg |-> "punitive damages"],
     [needle |-> <<"3x multiplier">>, msg |-> "attorney fee multiplier"],
     [needle |-> <<"DISGORGEMENT">>, msg |-> "profit disgorgement"],
     [needle |-> <<"PUBLIC DISCLOSURE">>, msg |-> "public disclosure remedy"],
     [needle |-> <<"DESTRUCTION of all copies">>, msg |-> "destruction remedy"],
     [needle |-> <<"forensic examination">>, msg |-> "forensic audit rights"],
     [needle |-> <<"48-hour notice">>, msg |-> "audit notice period"],
     [needle |-> <<"$1,000,000", " bond">>, msg |-> "challenge bond requirement"] >>

\* validate_maximum_protection.py: validate_enforcement_mechanisms
validate_enforcement_mechanisms(file) ==
  IF ~file.exists
  THEN Result(FALSE, "Cannot validate enforcement - LICENSE.txt not found", <<>>, 0)
  ELSE LET missing == Msgs(MissingFrom(enforcement_features, file.content))
       IN IF missing # <<>>
          THEN Result(FALSE, "Missing enforcement mechanisms",
                      Shown(missing, 3), More(missing, 3))
          ELSE Result(TRUE, "All enforcement mechanisms present", <<>>, 0)

\* python: "MAXIMUM PROTECTION" in token
HasMaximumProtection(tok) == tok \in {MaxRef, "MAXIMUM PROTECTION v2.0"}

\* validate_maximum_protection.py: validate_maximum_protection_skill, step 6
MaximumReference(md) ==
  IF \E i \in 1..Len(md.content) : HasMaximumProtection(md.content[i])
  THEN Result(TRUE, "Maximum protection reference found", <<>>, 0)
  ELSE Result(FALSE, "Missing maximum protection reference", <<>>, 0)

\* validate_maximum_protection.py: validate_maximum_protection_skill
validate_maximum_protection_skill(exists, is_dir, md, lic, meta) ==
  IF ~exists
  THEN [ret |-> PyTuple(<<"False", "Skill directory not found">>), results |-> <<>>,
        out |-> <<>>]
  ELSE IF ~is_dir
  THEN [ret |-> PyTuple(<<"False", "Path is not a directory">>), results |-> <<>>,
        out |-> <<>>]
  ELSE LET results ==
             << [rule |-> "License File", res |-> validate_maximum_license_file(lic)],
                [rule |-> "Forensic Metadata", res |-> validate_forensic_metadata(meta)] >>
               \o (IF lic.exists
                   THEN << [rule |-> "Criminal Provisions",
                            res |-> validate_criminal_provisions(lic)] >>
                   ELSE <<>>)
               \o (IF lic.exists
                   THEN << [rule |-> "Liquidated Damages",
                            res |-> validate_liquidated_damages(lic)] >>
                   ELSE <<>>)
               \o (IF lic.exists
                   THEN << [rule |-> "Enforcement",
                            res |-> validate_enforcement_mechanisms(lic)] >>
                   ELSE <<>>)
               \o (IF md.exists
                   THEN << [rule |-> "SKILL.md", res |-> MaximumReference(md)] >>
                   ELSE <<>>)
       IN [ret |-> PyBool(AllValid(results)), results |-> results,
           out |-> <<IF AllValid(results) THEN "MAXIMUM PROTECTION VERIFIED!"
                     ELSE "MAXIMUM PROTECTION VALIDATION FAILED">>]

\* ------------------------------------------------------------------- state

VARIABLES
  dirExists,   \* the skill path exists
  isDir,       \* the skill path is a directory
  skillMd,     \* <dir>/SKILL.md
  licenseTxt,  \* <dir>/LICENSE.txt
  metadata,    \* <dir>/.forensic_metadata.json
  pc,          \* where the running generator stands; "ready" between runs
  call,        \* the arguments (and clock, signature, marker) of the last run
  ret,         \* what the last run returned: "none" while it runs
  out,         \* what the last run printed, in order
  runs,        \* generator runs started on this directory
  streak,      \* the generator whose descriptor patch last succeeded, and how
               \* many times in succession it did
  report       \* what the last validator command run on the directory as it
               \* stands returned, recorded and exited with

vars ==
  <<dirExists, isDir, skillMd, licenseTxt, metadata, pc, call, ret, out, runs, streak,
    report>>

\* ------------------------------------------------------------------ inputs

\* The kinds of line a SKILL.md is made of.
LineKinds ==
  {<<DASH>>, <<DESC, " A demo skill">>, <<LIC, " MIT">>, <<"name: demo">>}

\* Every SKILL.md of at most MaxLines lines (lines joined by newlines).
InitialContents ==
  {Join(<<NL>>, ls) : ls \in UNION {[1..n -> LineKinds] : n \in 0..MaxLines}}

\* A SKILL.md as the skill tooling creates it.
WellFormedSkillMd ==
  <<DASH, NL, "name: demo", NL, DESC, " A demo skill", NL, DASH, NL, "# Demo">>

\* A SKILL.md whose body documents a field and then has a horizontal rule.
RuledSkillMd ==
  <<DASH, NL, "name: demo", NL, DESC, " A demo skill", NL, DASH, NL,
    "Set ", DESC, " to one sentence.", NL, DASH, NL, "# Usage">>

\* The arguments of a call.
Call(gen, entity_name, entity_type, contact_email, contact_name, secondary_entity) ==
  [gen |-> gen, entity_name |-> entity_name, entity_type |-> entity_type,
   jurisdiction |-> "California", contact_email |-> contact_email,
   contact_name |-> contact_name, secondary_entity |-> secondary_entity,
   county |-> "Los Angeles", year |-> "2026", date |-> "November 04, 2026",
   digital_signature |-> "", blockchain_marker |-> ""]

NoCall == Call("none", "", "individual", None, None, None)

\* generate_forensic_signature: a digest of path, entity and the time of the
\* call, so the k-th run on a directory draws a value of its own.
generate_forensic_signature(k) == "sha256-" \o ToString(k)

\* generate_blockchain_marker: "BTC-" and 32 random hex digits, a fresh value
\* in every run.
generate_blockchain_marker(k) == "BTC-" \o ToString(k)

\* The calls of the descriptor specification: one request, both generators.
PatchCalls ==
  { Call(g, "Acme Corp", "corporation", None, None, None) :
      g \in {"standard", "military"} }

\* The calls of the rendering specification: every entity type and every
\* combination of the optional arguments, for both generators.
RenderCalls ==
  { Call(g, "Acme Corp", t, e, n, s) :
      g \in {"standard", "military"}, t \in EntityTypes,
      e \in {None, Some("legal@acme.example")},
      n \in {None, Some("Jo Doe")},
      s \in {None, Some(""), Some("Beta LLC")} }

\* The calls of the validation specification: a full request, a joint one, a
\* two-letter entity, and requests with an empty entity name or jurisdiction.
ValidateCalls ==
  { [Call(g, r[1], "corporation", Some("legal@acme.example"), None, r[3])
       EXCEPT !.jurisdiction = r[2]] :
      g \in {"standard", "military"},
      r \in { <<"Acme Corp", "California", None>>,
              <<"Acme Corp", "California", Some("Beta LLC")>>,
              <<"AB", "California", None>>,
              <<"", "California", None>>,
              <<"Acme Corp", "", None>> } }

\* python: the needles of a rule table
Needles(table) == [i \in 1..Len(table) |-> table[i].needle]

\* A hand-written license that holds every literal the maximum-protection
\* rules look for, one to a line.
MaximumLicense ==
  Join(<<NL>>,
       << <<"Copyright (c)", " ", "2026", " ", "Acme Corp">> >>
         \o Needles(protection_requirements)
         \o Needles(criminal_statutes)
         \o [i \in 1..Len(damage_schedule) |-> damage_schedule[i].amount_str]
         \o Needles(enforcement_features)
         \o << <<"WILL seek criminal prosecution">>, <<"TRIPLE all damages">> >>)

\* The same license with the lines of the last p entries of the requirement
\* table and of the first e entries of the enforcement table left out (a
\* literal both tables look for stays, on the line the other table gives it).
CutMaximumLicense(p, e) ==
  Join(<<NL>>,
       << <<"Copyright (c)", " ", "2026", " ", "Acme Corp">> >>
         \o SubSeq(Needles(protection_requirements), 1,
                   Len(protection_requirements) - p)
         \o Needles(criminal_statutes)
         \o [i \in 1..Len(damage_schedule) |-> damage_schedule[i].amount_str]
         \o SubSeq(Needles(enforcement_features), e + 1,
                   Len(enforcement_features))
         \o << <<"WILL seek criminal prosecution">>, <<"TRIPLE all damages">> >>)

\* The cuts tried: a few lines, as many as a message shows, and one more.
Cuts == { <<1, 1>>, <<5, 3>>, <<6, 5>> }

\* A hand-written SKILL.md whose license field names the maximum-protection
\* license.
MaximumSkillMd ==
  <<DASH, NL, "name: demo", NL, DESC, " A demo skill", NL, LIC, MaxRef, NL, DASH, NL,
    "# Demo">>

\* A hand-written sidecar with the tag validate_forensic_metadata looks for.
MaximumMetadata ==
  [exists |-> TRUE, json |-> TRUE,
   data |-> [create_forensic_metadata(<<"Acme Corp">>, "sha256-0", "BTC-0")
               EXCEPT !.license_version = "2.0-MAXIMUM-PROTECTION"]]

\* Hand-written license texts for the entity-info rule: a two-letter entity,
\* a year that is not four digits, a template placeholder left in, an entity
\* padded with blanks.
HandWrittenLicenses ==
  { <<"Copyright (c)", " ", "2026", " ", "AB", NL, "All rights reserved", ".">>,
    <<"Copyright (c)", " ", "MMXXVI", " ", "Acme Corp", NL>>,
    <<"Copyright (c)", " ", "2026", " ", "Acme Corp", NL, "Contact: ", "[YOUR EMAIL",
      "]">>,
    <<"Copyright (c)", " ", "2026", " ", " ", "Acme Corp", " ", NL>> }

Directory(exists, is_dir, md, lic, meta) ==
  [exists |-> exists, is_dir |-> is_dir, md |-> md, lic |-> lic, meta |-> meta]

\* The paths of the validation specification.
Directories ==
  { Directory(FALSE, FALSE, NoFile, NoFile, NoMetadata),
    Directory(TRUE, FALSE, NoFile, NoFile, NoMetadata),
    Directory(TRUE, TRUE, NoFile, NoFile, NoMetadata),
    Directory(TRUE, TRUE, File(WellFormedSkillMd), NoFile, NoMetadata),
    Directory(TRUE, TRUE, File(WellFormedSkillMd), NoFile, MaximumMetadata),
    Directory(TRUE, TRUE, File(MaximumSkillMd), File(MaximumLicense), MaximumMetadata),
    Directory(TRUE, TRUE, File(MaximumSkillMd), File(MaximumLicense), NoMetadata),
    Directory(TRUE, TRUE, NoFile, File(MaximumLicense), MaximumMetadata) }
    \cup { Directory(TRUE, TRUE, File(WellFormedSkillMd), File(l), NoMetadata) :
             l \in HandWrittenLicenses }
    \cup { Directory(TRUE, TRUE, File(MaximumSkillMd),
                     File(CutMaximumLicense(c[1], c[2])), MaximumMetadata) :
             c \in Cuts }

\* No validator has run on the directory as it stands.
NoReport ==
  [cmd |-> "none", ret |-> PyBool(FALSE), results |-> <<>>, out |-> <<>>, exit |-> -1]

\* ----------------------------------------------------------------- actions

\* A variant that does not look for SKILL.md.
ValidateDirectoryOnly(dir, md) ==
  IF ~dir THEN "Error: Skill directory not found" ELSE "ok"

\* Both generators, "Validate skill directory": the error printed, or "ok".
ValidateSkillDirectory(dir, md) ==
  IF ~dir THEN "Error: Skill directory not found"
  ELSE IF ~md.exists THEN "Error: SKILL.md not found"
  ELSE "ok"

\* A generator is called: it checks the directory and the descriptor.
Start(calls, maxRuns) ==
  /\ pc = "ready"
  /\ runs < maxRuns
  /\ \E c \in calls :
       /\ call' = IF c.gen = "military"
                  THEN [c EXCEPT
                          !.digital_signature = generate_forensic_signature(runs + 1),
                          !.blockchain_marker = generate_blockchain_marker(runs + 1)]
                  ELSE c
       /\ LET v == ValidateSkillDirectory(dirExists, skillMd)
          IN IF v = "ok"
             THEN /\ pc' = "write_license"
                  /\ ret' = "none"
                  /\ out' = <<>>
             ELSE /\ pc' = "ready"
                  /\ ret' = "False"
                  /\ out' = <<v>>
  /\ runs' = runs + 1
  /\ report' = NoReport
  /\ UNCHANGED <<dirExists, isDir, skillMd, licenseTxt, metadata, streak>>

\* A variant that patches the descriptor even though the write failed.
AfterLicenseWritePatchesAnyway(gen, written) ==
  IF ~written THEN "update_skill_md"
  ELSE IF gen = "military" THEN "write_metadata"
  ELSE "update_skill_md"

\* A variant that goes on after a failed write.
AfterLicenseWriteGoesOn(gen, written) ==
  IF gen = "military" THEN "write_metadata" ELSE "update_skill_md"

\* Where a generator goes after its write of LICENSE.txt.
AfterLicenseWrite(gen, written) ==
  IF ~written THEN "ready"
  ELSE IF gen = "military" THEN "write_metadata"
  ELSE "update_skill_md"

\* license_path.write_text(license_content), inside try/except.
WriteLicense ==
  /\ pc = "write_license"
  /\ \/ /\ licenseTxt' = File(LicenseContent(call))
        /\ out' = Append(out, "Created LICENSE.txt")
        /\ pc' = AfterLicenseWrite(call.gen, TRUE)
        /\ ret' = IF pc' = "ready" THEN "False" ELSE "none"
     \/ \* the write raises: the file is left as it was, or opened and cut short
        /\ licenseTxt' \in {licenseTxt, File(<<>>)}
        /\ out' = Append(out, "Error writing LICENSE.txt")
        /\ pc' = AfterLicenseWrite(call.gen, FALSE)
        /\ ret' = IF pc' = "ready" THEN "False" ELSE "none"
  /\ UNCHANGED <<dirExists, isDir, skillMd, metadata, call, runs, streak, report>>

\* A variant in which a failed write of the sidecar ends the run.
AfterMetadataWriteFatal(written) ==
  IF written THEN "update_skill_md" ELSE "ready"

\* Where the elevated generator goes after its write of the sidecar: on, a
\* failure being a warning.
AfterMetadataWrite(written) == "update_skill_md"

\* metadata_path.write_text(create_forensic_metadata(...)), inside try/except.
WriteMetadata ==
  /\ pc = "write_metadata"
  /\ \/ /\ metadata' =
             [exists |-> TRUE, json |-> TRUE,
              data |-> create_forensic_metadata(full_entity_name(call),
                                                call.digital_signature,
                                                call.blockchain_marker)]
        /\ out' = Append(out, "Created forensic metadata file")
        /\ pc' = AfterMetadataWrite(TRUE)
        /\ ret' = IF pc' = "ready" THEN "False" ELSE "none"
     \/ /\ metadata' \in {metadata, BrokenMetadata}
        /\ out' = Append(out, "Warning: Could not create forensic metadata")
        /\ pc' = AfterMetadataWrite(FALSE)
        /\ ret' = IF pc' = "ready" THEN "False" ELSE "none"
  /\ UNCHANGED <<dirExists, isDir, skillMd, licenseTxt, call, runs, streak, report>>

\* The descriptor patch of the generator gen.
Patch(gen, text) == IF gen = "standard" THEN StdPatch(text) ELSE MilPatch(text)

NoStreak == [gen |-> "none", n |-> 0]

\* "Update SKILL.md frontmatter", inside try/except, then the return.
UpdateSkillMd ==
  /\ pc = "update_skill_md"
  /\ pc' = "ready"
  /\ LET p == Patch(call.gen, skillMd.content)
     IN \/ \* read, patched, written (or left alone): success
           /\ skillMd' = File(p.content)
           /\ out' = out \o <<IF p.writes THEN "Updated SKILL.md"
                              ELSE "SKILL.md already contains license reference",
                              "Successfully applied">>
           /\ ret' = "True"
           /\ streak' = IF streak.gen = call.gen
                        THEN [gen |-> call.gen,
                              n |-> IF streak.n < 2 THEN streak.n + 1 ELSE 2]
                        ELSE [gen |-> call.gen, n |-> 1]
        \/ \* skill_md.read_text() raises
           /\ skillMd' = skillMd
           /\ out' = Append(out, "Error updating SKILL.md")
           /\ ret' = "False"
           /\ streak' = streak
        \/ \* skill_md.write_text() raises: left as it was, or cut short
           /\ p.writes
           /\ \/ skillMd' = skillMd /\ streak' = streak
              \/ skillMd' = File(<<>>) /\ streak' = NoStreak
           /\ out' = Append(out, "Error updating SKILL.md")
           /\ ret' = "False"
  /\ UNCHANGED <<dirExists, isDir, licenseTxt, metadata, call, runs, report>>

\* python validate_licensing.py --skill-path <dir>: main
ValidateLicensing ==
  /\ pc = "ready"
  /\ \E v \in {validate_skill_licensing(dirExists, isDir, skillMd, licenseTxt)} :
       report' = [cmd |-> "validate_licensing", ret |-> v.ret, results |-> v.results,
                  out |-> v.out, exit |-> ExitStatus(v.ret)]
  /\ UNCHANGED <<dirExists, isDir, skillMd, licenseTxt, metadata, pc, call, ret, out,
                 runs, streak>>

\* python validate_maximum_protection.py --skill-path <dir>: main
ValidateMaximumProtection ==
  /\ pc = "ready"
  /\ \E v \in {validate_maximum_protection_skill(dirExists, isDir, skillMd, licenseTxt,
                                                   metadata)} :
       report' = [cmd |-> "validate_maximum_protection", ret |-> v.ret,
                  results |-> v.results, out |-> v.out, exit |-> ExitStatus(v.ret)]
  /\ UNCHANGED <<dirExists, isDir, skillMd, licenseTxt, metadata, pc, call, ret, out,
                 runs, streak>>

\* ----------------------------------------------------------- specifications

InitCommon ==
  /\ licenseTxt = NoFile
  /\ metadata = NoMetadata
  /\ pc = "ready"
  /\ call = NoCall
  /\ ret = "none"
  /\ out = <<>>
  /\ runs = 0
  /\ streak = NoStreak
  /\ report = NoReport

\* Descriptor specification: any directory state, any small SKILL.md.
Init ==
  /\ dirExists \in BOOLEAN
  /\ isDir = dirExists
  /\ skillMd \in (IF dirExists
                  THEN {NoFile}
                         \cup {File(c) : c \in InitialContents
                                           \cup {WellFormedSkillMd, RuledSkillMd}}
                  ELSE {NoFile})
  /\ InitCommon

Next ==
  \/ Start(PatchCalls, MaxRuns)
  \/ WriteLicense
  \/ WriteMetadata
  \/ UpdateSkillMd

Spec == Init /\ [][Next]_vars

\* Rendering specification: a well-formed skill directory, every request.
InitRender ==
  /\ dirExists = TRUE
  /\ isDir = TRUE
  /\ skillMd = File(WellFormedSkillMd)
  /\ InitCommon

NextRender ==
  \/ Start(RenderCalls, MaxRenderRuns)
  \/ WriteLicense
  \/ WriteMetadata
  \/ UpdateSkillMd

SpecRender == InitRender /\ [][NextRender]_vars

\* Validation specification: the directories a validator may be pointed at
\* (none, a file, a fresh skill, hand-written artifacts), generator runs on
\* them, and both validator commands.
InitValidate ==
  /\ \E d \in Directories :
       /\ dirExists = d.exists
       /\ isDir = d.is_dir
       /\ skillMd = d.md
       /\ licenseTxt = d.lic
       /\ metadata = d.meta
  /\ pc = "ready"
  /\ call = NoCall
  /\ ret = "none"
  /\ out = <<>>
  /\ runs = 0
  /\ streak = NoStreak
  /\ report = NoReport

NextValidate ==
  \/ Start(ValidateCalls, MaxValidateRuns)
  \/ WriteLicense
  \/ WriteMetadata
  \/ UpdateSkillMd
  \/ ValidateLicensing
  \/ ValidateMaximumProtection

SpecValidate == InitValidate /\ [][NextValidate]_vars

\* ------------------------------------------------------------------ claims

ErrLicense == "Error writing LICENSE.txt"
WarnMetadata == "Warning: Could not create forensic metadata"
ErrSkillMd == "Error updating SKILL.md"

\* The run that is in progress, or the last one, wrote LICENSE.txt.
LicenseWritten == Has(out, "Created LICENSE.txt")

\* The step is a descriptor patch that ended in success.
PatchSucceeds == pc = "update_skill_md" /\ ret' = "True"

\* The license reference a generator writes.
RefOf(gen) == IF gen = "standard" THEN StdRef ELSE MilRef

\* The text starts with a front-matter block: "---", a newline, and a later
\* line that starts with "---".
HasFrontMatter(text) ==
  /\ Len(text) >= 2
  /\ text[1] = DASH
  /\ text[2] = NL
  /\ RulePositions(text, 3) # {}

\* The positions of tok inside the front-matter block.
InFrontMatter(text, tok) ==
  IF HasFrontMatter(text)
  THEN {p \in 3..(Min(RulePositions(text, 3)) - 1) : text[p] = tok}
  ELSE {}

\* C1: when the directory is missing, or holds no SKILL.md, a generator run
\* returns failure with a message of its own for each case, and the directory
\* holds no LICENSE.txt, no sidecar and no SKILL.md afterwards.
C1_NotFoundWritesNothing ==
  (runs > 0 /\ (~dirExists \/ ~skillMd.exists)) =>
    /\ pc = "ready"
    /\ ret = "False"
    /\ out = <<IF dirExists THEN "Error: SKILL.md not found"
               ELSE "Error: Skill directory not found">>
    /\ licenseTxt = NoFile
    /\ metadata = NoMetadata
    /\ skillMd = NoFile

C1_Witness ==
  /\ runs > 0
  /\ dirExists
  /\ ~skillMd.exists
  /\ ret = "False"
  /\ out = <<"Error: SKILL.md not found">>

\* C2: a descriptor patch that follows a successful patch by the same
\* generator leaves SKILL.md exactly as the first one left it.
C2_PatchIdempotent ==
  [][(PatchSucceeds /\ streak'.n = 2) => skillMd' = skillMd]_vars

C2_Witness ==
  /\ pc = "ready"
  /\ streak = [gen |-> "military", n |-> 2]
  /\ Contains(skillMd.content, <<NL, LIC, MilRef, NL, DASH>>)

\* The text with one license line put right after the line that holds p.
InsertAfterLine(text, p, ref) ==
  SubSeq(text, 1, LineEnd(text, p)) \o <<NL, LIC, ref>>
    \o SubSeq(text, LineEnd(text, p) + 1, Len(text))

\* C3: when SKILL.md has no license: field (and its front matter has a
\* description: field), a successful patch inserts exactly one license: line,
\* right after the description: line of the front matter, and changes
\* nothing else.
C3_InsertsOneLineAfterDescription ==
  [][(/\ PatchSucceeds
      /\ ~Has(skillMd.content, LIC)
      /\ InFrontMatter(skillMd.content, DESC) # {})
     => skillMd'.content =
          InsertAfterLine(skillMd.content,
                          Min(InFrontMatter(skillMd.content, DESC)),
                          RefOf(call.gen))]_vars

\* The text with the rest of the line after position p replaced by ref.
ReplaceLineValue(text, p, ref) ==
  SubSeq(text, 1, p) \o <<ref>> \o SubSeq(text, LineEnd(text, p) + 1, Len(text))

\* C4: when the front matter has a license: field, a successful patch
\* replaces the value of that one line by the generator's reference and
\* leaves every other line as it was.
C4_ReplacesOnlyTheLicenseLine ==
  [][(PatchSucceeds /\ InFrontMatter(skillMd.content, LIC) # {})
     => skillMd'.content =
          ReplaceLineValue(skillMd.content,
                           Min(InFrontMatter(skillMd.content, LIC)),
                           RefOf(call.gen))]_vars

\* C5: a run that reports success on a SKILL.md that starts with a
\* front-matter block leaves a SKILL.md that validate_skill_md accepts.
C5_SuccessMeansDescriptorValid ==
  [][(PatchSucceeds /\ HasFrontMatter(skillMd.content))
     => validate_skill_md(skillMd').ok]_vars

\* C6: a run whose write of LICENSE.txt fails returns failure there and then:
\* the failing step leaves the sidecar and SKILL.md as they were, and nothing
\* of the run follows it.
C6_LicenseWriteFailureAborts ==
  [][Has(out', ErrLicense) =>
       /\ pc' = "ready"
       /\ ret' = "False"
       /\ out'[Len(out')] = ErrLicense
       /\ metadata' = metadata
       /\ skillMd' = skillMd]_vars

C6_Witness ==
  /\ pc = "ready"
  /\ ret = "False"
  /\ Has(out, ErrLicense)
  /\ call.gen = "military"

\* C7: in the elevated generator a failed write of the sidecar is a warning:
\* LICENSE.txt is written, the run goes on to the descriptor patch, and it
\* returns success exactly when that patch does not fail.
C7_MetadataFailureIsWarning ==
  Has(out, WarnMetadata) =>
    /\ call.gen = "military"
    /\ licenseTxt = File(LicenseContent(call))
    /\ pc \in {"update_skill_md", "ready"}
    /\ pc = "update_skill_md" => ret = "none"
    /\ pc = "ready" =>
         /\ out[Len(out)] # WarnMetadata
         /\ (ret = "True") <=> ~Has(out, ErrSkillMd)
         /\ (ret = "True") => Has(out, "Updated SKILL.md")

C7_Witness ==
  /\ pc = "ready"
  /\ ret = "True"
  /\ Has(out, WarnMetadata)
  /\ ~metadata.exists
  /\ Contains(skillMd.content, <<LIC, MilRef>>)

\* The entity printed on the copyright line of a license text.
CopyrightEntity(text) ==
  LET starts == {i \in 1..(Len(text) - 4) :
                   text[i] = "Copyright (c)" /\ IsYear(text[i + 2])}
  IN IF starts = {} THEN <<>>
     ELSE SubSeq(text, Min(starts) + 4, LineEnd(text, Min(starts) + 4))

\* Every number-sensitive token of the license text is plural.
AllPlural(text) ==
  \A i \in 1..(Len(text) - 1) :
    /\ text[i] \in {"copyright holder", "Copyright Holder"} => text[i + 1] = "s"
    /\ text[i] = "COPYRIGHT HOLDER" => text[i + 1] = "S"
    /\ text[i] = " retain" => text[i + 1] # "s"

\* Every number-sensitive token of the license text is singular.
AllSingular(text) ==
  \A i \in 1..(Len(text) - 1) :
    /\ text[i] \in {"copyright holder", "Copyright Holder"} => text[i + 1] # "s"
    /\ text[i] = "COPYRIGHT HOLDER" => text[i + 1] # "S"
    /\ text[i] = " retain" => text[i + 1] = "s"

\* C8: in a rendered license the pluralization tokens, the copyright holder's
\* name and the ownership statement are all joint when a secondary entity is
\* supplied (whatever its value), and all singular when none is.
C8_PluralizationAgrees ==
  LicenseWritten =>
    LET text == licenseTxt.content
    IN IF IsNotNone(call.secondary_entity)
       THEN /\ AllPlural(text)
            /\ Has(CopyrightEntity(text), " and ")
            /\ Has(text, "jointly owned by ")
       ELSE /\ AllSingular(text)
            /\ ~Has(CopyrightEntity(text), " and ")
            /\ ~Has(text, "jointly owned by ")

\* C9: the LICENSE.txt rendered from a valid request holds none of the
\* placeholder markers validate_entity_info searches for.
C9_NoPlaceholderMarkers ==
  LicenseWritten =>
    \A i \in 1..Len(placeholders) : ~Has(licenseTxt.content, placeholders[i])

\* C10: for entity "Acme Corp", a corporation in California, with no optional
\* argument, validate_entity_info passes on the LICENSE.txt either generator
\* writes and reports the entity "Acme Corp".
C10_RoundTripAcme ==
  (/\ LicenseWritten
   /\ call.entity_name = "Acme Corp"
   /\ call.entity_type = "corporation"
   /\ call.jurisdiction = "California"
   /\ call.secondary_entity = None
   /\ call.contact_email = None
   /\ call.contact_name = None)
  => /\ validate_entity_info(licenseTxt).ok
     /\ validate_entity_info(licenseTxt).entity = <<"Acme Corp">>

\* The last run was a run of the elevated generator that wrote all three
\* artifacts and returned success, and the directory is as that run left it.
ElevatedRunSucceeded ==
  /\ pc = "ready"
  /\ call.gen = "military"
  /\ ret = "True"
  /\ Has(out, "Created LICENSE.txt")
  /\ Has(out, "Created forensic metadata file")
  /\ Has(out, "Updated SKILL.md")

\* The request names an entity and a jurisdiction.
ValidRequest ==
  /\ call.entity_name # ""
  /\ call.jurisdiction # ""
  /\ call.entity_type \in EntityTypes

\* C11: on a directory that a successful run of the elevated generator has just
\* written (LICENSE.txt, sidecar, SKILL.md), the maximum-protection validator
\* returns pass: every rule it records passes.
C11_ElevatedOutputPassesMaximum ==
  (/\ ElevatedRunSucceeded
   /\ ValidRequest
   /\ report.cmd = "validate_maximum_protection")
  => /\ report.ret = PyBool(TRUE)
     /\ \A i \in 1..Len(report.results) : report.results[i].res.ok

\* C12: a request whose entity name or jurisdiction is the empty string is
\* rejected before any write: the run returns failure at once and LICENSE.txt,
\* the sidecar and SKILL.md stay as they were.
C12_EmptyFieldRejectedBeforeWrite ==
  [][(call'.gen # "none" /\ ~ValidRequest')
     => /\ pc' = "ready"
        /\ ret' = "False"
        /\ licenseTxt' = licenseTxt
        /\ metadata' = metadata
        /\ skillMd' = skillMd]_vars

\* Every rule the last validator command recorded passed, on a path that is
\* a directory.
VerdictPass ==
  /\ dirExists
  /\ isDir
  /\ \A i \in 1..Len(report.results) : report.results[i].res.ok

\* C13: a validator command exits with status 0 exactly when its aggregate
\* verdict is pass, and with status 1 on every failure, a path that does not
\* exist or is not a directory included.
C13_ExitStatusFollowsVerdict ==
  report.cmd # "none" =>
    /\ report.exit \in {0, 1}
    /\ (report.exit = 0) <=> VerdictPass
    /\ (~dirExists \/ ~isDir) => report.exit = 1

\* Every rule of the standard tier passes on the directory's artifacts.
StandardRulesPass ==
  /\ validate_license_file(licenseTxt).ok
  /\ validate_skill_md(skillMd).ok
  /\ validate_ai_prohibition(licenseTxt).ok
  /\ validate_entity_info(licenseTxt).ok

\* Every rule of the maximum-protection tier passes on the directory's
\* artifacts.
MaximumRulesPass ==
  /\ validate_maximum_license_file(licenseTxt).ok
  /\ validate_forensic_metadata(metadata).ok
  /\ validate_criminal_provisions(licenseTxt).ok
  /\ validate_liquidated_damages(licenseTxt).ok
  /\ validate_enforcement_mechanisms(licenseTxt).ok
  /\ skillMd.exists /\ MaximumReference(skillMd).ok

\* C14: on an existing directory a validator's verdict is pass if and only if
\* every rule of its tier passes on the artifacts; a directory without
\* LICENSE.txt, without SKILL.md or (maximum-protection tier) without the
\* sidecar never passes.
C14_PassIffEveryRulePasses ==
  (report.cmd # "none" /\ dirExists /\ isDir) =>
    LET pass == report.ret = PyBool(TRUE)
    IN /\ report.cmd = "validate_licensing" => (pass <=> StandardRulesPass)
       /\ report.cmd = "validate_maximum_protection" => (pass <=> MaximumRulesPass)
       /\ pass => /\ licenseTxt.exists
                  /\ skillMd.exists
                  /\ report.cmd = "validate_maximum_protection" => metadata.exists

\* The failing rules a rule function's result reports: the entries it lists
\* (shown or only counted), or its one message.
FailureCount(res) ==
  IF res.ok THEN 0
  ELSE IF res.shown = <<>> THEN 1
  ELSE Len(res.shown) + res.more

\* The result the last validator command recorded under the name rule.
Recorded(rule) ==
  LET at == {i \in 1..Len(report.results) : report.results[i].rule = rule}
  IN report.results[Min(at)].res

\* The requirements of the damages rule that the text does not meet: each
\* amount of the schedule, the tripling and the 10x provision.
MissingDamages(content) ==
  Len(SelectSeq(damage_schedule, LAMBDA d : ~Contains(content, d.amount_str)))
    + (IF Has(content, "TRIPLE all damages") THEN 0 ELSE 1)
    + (IF Has(content, "10x all damages") THEN 0 ELSE 1)

\* C15: every required element that is missing from a license document has a
\* failure of its own in the report, whatever the outcome of the rules before
\* it: the LICENSE.txt rule of the standard tier and the damages rule of the
\* maximum-protection tier report as many failures as elements are missing.
C15_EveryMissingElementReported ==
  (report.cmd # "none" /\ dirExists /\ isDir /\ licenseTxt.exists) =>
    /\ report.cmd = "validate_licensing" =>
         FailureCount(Recorded("LICENSE.txt")) =
           Len(MissingFrom(required_elements, licenseTxt.content))
    /\ report.cmd = "validate_maximum_protection" =>
         FailureCount(Recorded("Liquidated Damages")) =
           MissingDamages(licenseTxt.content)

\* Three decimal digits of n < 1000, zero-padded.
Pad3(n) ==
  IF n < 10 THEN "00" \o ToString(n)
  ELSE IF n < 100 THEN "0" \o ToString(n)
  ELSE ToString(n)

\* An amount as the license prints it: a dollar sign and the digits grouped
\* by thousands.
Dollars(n) ==
  IF n < 1000 THEN "$" \o ToString(n)
  ELSE IF n < 1000000 THEN "$" \o ToString(n \div 1000) \o "," \o Pad3(n % 1000)
  ELSE "$" \o ToString(n \div 1000000) \o "," \o Pad3((n \div 1000) % 1000)
         \o "," \o Pad3(n % 1000)

\* The name a violation kind of the sidecar has in the damages schedule.
ScheduleLabel(kind) ==
  CASE kind = "ai_training" -> "AI/ML Training"
    [] kind = "commercial_use" -> "Commercial Use"
    [] kind = "redistribution" -> "Redistribution"
    [] kind = "modification" -> "Modification"
    [] kind = "reverse_engineering" -> "Reverse Engineering"
    [] kind = "circumvention" -> "Circumvention"
    [] OTHER -> kind

\* The amounts printed on the lines "- <label> ...: <amount> per instance"
\* below the heading LIQUIDATED DAMAGES SCHEDULE.
ScheduleAmounts(text, label) ==
  LET heading == Min(Positions(text, "LIQUIDATED DAMAGES SCHEDULE", 1))
  IN {text[i + 3] : i \in {j \in heading..(Len(text) - 3) :
                             text[j] = "- " /\ text[j + 1] = label}}

\* The amount the damages rule expects for a label.
ExpectedAmounts(label) ==
  {damage_schedule[i].amount_int :
     i \in {j \in 1..Len(damage_schedule) : damage_schedule[j].kind = label}}

\* LICENSE.txt is a rendered elevated license and the sidecar can be read.
ElevatedPair ==
  /\ licenseTxt.exists
  /\ Has(licenseTxt.content, "LIQUIDATED DAMAGES SCHEDULE")
  /\ metadata.exists
  /\ metadata.json

\* C16: for every violation kind of the sidecar's liquidated_damages, the
\* amount the rendered elevated license prints for that kind in its damages
\* schedule is the sidecar's integer, and that integer is the amount the
\* damages rule of the validator expects for the kind.
C16_DamagesAgree ==
  ElevatedPair =>
    LET damages == metadata.data.enforcement.liquidated_damages
    IN /\ DOMAIN damages =
            {"ai_training", "commercial_use", "redistribution", "modification",
             "reverse_engineering", "circumvention"}
       /\ \A kind \in DOMAIN damages :
            /\ ScheduleAmounts(licenseTxt.content, ScheduleLabel(kind))
                 = {Dollars(damages[kind])}
            /\ ExpectedAmounts(ScheduleLabel(kind)) = {damages[kind]}

C16_Witness ==
  /\ ElevatedPair
  /\ pc = "ready"
  /\ ret = "True"
  /\ Has(out, "Created forensic metadata file")
  /\ metadata.data.enforcement.liquidated_damages["redistribution"] = 50000
  /\ Contains(licenseTxt.content,
              <<"- ", "Redistribution", " Violation: ", "$50,000", " per instance">>)

\* The contact block of a license text: what stands between the heading
\* PERMISSION REQUESTS and the blank line, or the line of requirements, that
\* follows the block.
ContactBlock(text) ==
  LET first == Min(Positions(text, "PERMISSION REQUESTS", 1)) + 2
      ends == {j \in first..(Len(text) - 1) :
                 /\ text[j] = NL
                 /\ text[j + 1] \in {NL, "Required: Written application, "}}
  IN SubSeq(text, first, Min(ends) - 1)

\* The line a generator prints when it has no email to give.
ContactUnavailable(gen) ==
  IF gen = "standard" THEN "[Contact information to be provided]"
  ELSE "[SEALED - Contact through counsel only]"

\* The notice the elevated generator adds below an email.
ContactNotice(gen) ==
  IF gen = "standard" THEN <<>>
  ELSE <<NL, "NOTICE: Permission requests require ", "$10,000", " processing fee">>

\* C17: the contact block of a rendered license is one of three: contact
\* name, entity name and email when name and email are given; entity name and
\* email, with no name line, when only the email is; the entity name and the
\* contact-unavailable line when no email is given, and a contact name given
\* without an email is nowhere in the license.
C17_ContactBlockCases ==
  LicenseWritten =>
    LET text == licenseTxt.content
        block == ContactBlock(text)
        name == call.contact_name
        email == call.contact_email
    IN /\ (name.given /\ email.given) =>
            block = <<name.value, NL, call.entity_name, NL, "Email: ", email.value>>
                      \o ContactNotice(call.gen)
       /\ (~name.given /\ email.given) =>
            block = <<call.entity_name, NL, "Email: ", email.value>>
                      \o ContactNotice(call.gen)
       /\ ~email.given =>
            /\ block = <<call.entity_name, NL, ContactUnavailable(call.gen)>>
            /\ name.given => ~Has(text, name.value)

C17_Witness ==
  /\ LicenseWritten
  /\ call.gen = "standard"
  /\ call.contact_name = Some("Jo Doe")
  /\ call.contact_email = None
  /\ ContactBlock(licenseTxt.content) =
       <<"Acme Corp", NL, "[Contact information to be provided]">>

\* The values a license text prints after a label.
ValuesAfter(text, label) ==
  {text[i + 1] : i \in {j \in 1..(Len(text) - 1) : text[j] = label}}

\* C18: between runs, whenever the directory holds an elevated LICENSE.txt and
\* a sidecar, the sidecar's entity, digital_signature and blockchain_marker
\* are the copyright holder, the Digital Signature and the Blockchain
\* Registration that LICENSE.txt prints.
C18_SidecarMatchesLicense ==
  (/\ pc = "ready"
   /\ licenseTxt.exists
   /\ Has(licenseTxt.content, "Digital Signature: ")
   /\ metadata.exists
   /\ metadata.json)
  => /\ metadata.data.entity = CopyrightEntity(licenseTxt.content)
     /\ ValuesAfter(licenseTxt.content, "Digital Signature: ")
          = {metadata.data.digital_signature}
     /\ ValuesAfter(licenseTxt.content, "Blockchain Registration: ")
          = {metadata.data.blockchain_marker}

\* The first line of the ownership statement of a license text: the line
\* below "All rights reserved." and a blank line.
OwnershipLine(text) ==
  LET first == Min(Positions(text, "All rights reserved", 1)) + 4
  IN SubSeq(text, first, LineEnd(text, first))

\* The wording that tells the entity type in an ownership statement.
TypeWording(entity_type) ==
  CASE entity_type = "individual" -> ", an individual."
    [] entity_type = "corporation" -> ", a corporation."
    [] entity_type = "llc" -> ", a limited liability company."
    [] entity_type = "medical_corporation" -> ", a medical corporation."
    [] OTHER -> ""

\* C19: in a license rendered by either generator, with no secondary entity
\* the ownership statement is a non-empty wording chosen by the entity type
\* and naming the entity; with a secondary entity it is a joint-ownership
\* statement naming both entities, followed by the clause that both entities
\* retain enforcement rights independently and jointly.
C19_OwnershipStatement ==
  LicenseWritten =>
    LET text == licenseTxt.content
        line == OwnershipLine(text)
    IN /\ ~IsNotNone(call.secondary_entity) =>
            /\ line # <<>>
            /\ Has(line, call.entity_name)
            /\ Has(line, TypeWording(call.entity_type))
            /\ ~Has(line, "jointly owned by ")
       /\ Truthy(call.secondary_entity) =>
            /\ Has(line, "jointly owned by ")
            /\ Has(line, call.entity_name)
            /\ Has(line, call.secondary_entity.value)
            /\ Has(text,
                   "Both entities retain full enforcement rights independently and jointly.")

\* The four markers of a template that was not filled in.
FourMarkers ==
  {"[YOUR NAME", "[Contact information to be provided]", "[YOUR EMAIL",
   "[YOUR JURISDICTION"}

\* The copyright holder a generator prints for a request: E, or "E and S".
ExpectedHolder(c) ==
  IF Truthy(c.secondary_entity)
  THEN <<c.entity_name, " and ", c.secondary_entity.value>>
  ELSE <<c.entity_name>>

\* C20: the entity-info rule fails when the license has no line "Copyright
\* (c) <4-digit year> <entity>", when the entity, trimmed, is shorter than 3
\* characters, and when one of the four placeholder markers is in the text;
\* otherwise it passes and reports the trimmed entity, which for a license a
\* generator rendered is the request's entity (or "E and S").
C20_EntityInfoRule ==
  (/\ report.cmd = "validate_licensing"
   /\ dirExists /\ isDir
   /\ licenseTxt.exists)
  => LET text == licenseTxt.content
         res == Recorded("Entity Info")
         captured == CopyrightEntity(text)
         trimmed == Strip(captured)
     IN /\ res.ok <=> /\ captured # <<>>
                      /\ TextLen(trimmed) >= 3
                      /\ \A marker \in FourMarkers : ~Has(text, marker)
        /\ res.ok => res.entity = trimmed
        /\ (res.ok /\ licenseTxt = File(LicenseContent(call)))
             => res.entity = ExpectedHolder(call)

C20_Witness ==
  /\ report.cmd = "validate_licensing"
  /\ licenseTxt = File(LicenseContent(call))
  /\ call.secondary_entity = Some("Beta LLC")
  /\ Recorded("Entity Info").ok
  /\ Recorded("Entity Info").entity = <<"Acme Corp", " and ", "Beta LLC">>

\* The first min(k, cap) of the k messages, in table order.
FirstOf(failed, cap) ==
  [i \in 1..(IF Len(failed) < cap THEN Len(failed) ELSE cap) |-> failed[i]]

\* A rule result lists the first min(k, cap) of the k failures and counts
\* k - cap further ones exactly when k > cap; with no failure it passes.
CappedListing(res, failed, cap) ==
  LET k == Len(failed)
  IN /\ res.ok <=> k = 0
     /\ res.shown = FirstOf(failed, cap)
     /\ res.more > 0 <=> k > cap
     /\ k > cap => res.more = k - cap
     /\ Len(res.shown) + res.more = k

\* C21: in the maximum-protection license-file rule, when k requirements
\* fail the message lists the first min(k, 5) failure messages in table order
\* and, exactly when k > 5, ends with the count k - 5; the enforcement rule
\* does the same with the names of the missing mechanisms and a cap of 3.
\* The shown entries plus the omitted count add up to k.
C21_ListingIsCapped ==
  (/\ report.cmd = "validate_maximum_protection"
   /\ dirExists /\ isDir
   /\ licenseTxt.exists)
  => LET text == licenseTxt.content
         failed_checks ==
           [i \in 1..Len(MissingFrom(protection_requirements, text)) |->
              MissingFrom(protection_requirements, text)[i].msg]
         missing ==
           [i \in 1..Len(MissingFrom(enforcement_features, text)) |->
              MissingFrom(enforcement_features, text)[i].msg]
     IN /\ CappedListing(Recorded("License File"), failed_checks, 5)
        /\ CappedListing(Recorded("Enforcement"), missing, 3)

\* A license that misses six requirements and four mechanisms: five and three
\* are listed, one more is counted in each message.
C21_Witness ==
  /\ report.cmd = "validate_maximum_protection"
  /\ licenseTxt = File(CutMaximumLicense(6, 5))
  /\ Len(Recorded("License File").shown) = 5
  /\ Recorded("License File").more = 1
  /\ Recorded("License File").shown[5] = "Missing exclusive jurisdiction"
  /\ Len(Recorded("Enforcement").shown) = 3
  /\ Recorded("Enforcement").more = 1
  /\ Recorded("Enforcement").shown[3] = "punitive damages"

\* The sidecar the elevated generator writes for the request c.
SidecarOf(c) ==
  [exists |-> TRUE, json |-> TRUE,
   data |-> create_forensic_metadata(full_entity_name(c), c.digital_signature,
                                     c.blockchain_marker)]

\* The elevated run in progress is past its sidecar step, written or not.
SidecarStepDone ==
  Has(out, "Created forensic metadata file") \/ Has(out, WarnMetadata)

\* The file is there and holds a text (a write cut short leaves none).
InPlace(file) == file.exists /\ file.content # <<>>

\* C22: a run writes LICENSE.txt, then (elevated generator) the sidecar, then
\* SKILL.md.  LICENSE.txt changes only at the first step and the sidecar only
\* at the second; a step changes the sidecar or SKILL.md only in a run whose
\* write of LICENSE.txt succeeded, and SKILL.md only after the sidecar step;
\* a run that returns success has written LICENSE.txt; a run that fails at
\* the descriptor step returns failure and leaves the LICENSE.txt (and the
\* sidecar) it wrote in place.
C22_WriteOrder ==
  [][/\ licenseTxt' # licenseTxt => pc = "write_license"
     /\ (pc = "write_license" /\ Has(out', "Created LICENSE.txt")) =>
          InPlace(licenseTxt') /\ Has(licenseTxt'.content, "Copyright (c)")
     /\ metadata' # metadata =>
          /\ pc = "write_metadata"
          /\ call.gen = "military"
          /\ LicenseWritten /\ InPlace(licenseTxt)
     /\ (pc = "write_metadata" /\ Has(out', "Created forensic metadata file")) =>
          metadata'.exists /\ metadata'.json
     /\ skillMd' # skillMd =>
          /\ pc = "update_skill_md"
          /\ LicenseWritten /\ InPlace(licenseTxt)
          /\ call.gen = "military" => SidecarStepDone
     /\ ret' = "True" =>
          /\ Has(out', "Created LICENSE.txt")
          /\ licenseTxt' = licenseTxt /\ InPlace(licenseTxt)
     /\ Has(out', ErrSkillMd) =>
          /\ pc' = "ready"
          /\ ret' = "False"
          /\ Has(out', "Created LICENSE.txt")
          /\ licenseTxt' = licenseTxt /\ InPlace(licenseTxt)
          /\ metadata' = metadata
          /\ Has(out', "Created forensic metadata file") =>
               metadata.exists /\ metadata.json]_vars

\* An elevated run wrote LICENSE.txt and the sidecar and then failed to
\* update SKILL.md, which it left cut short.
C22_Witness ==
  /\ pc = "ready"
  /\ ret = "False"
  /\ call.gen = "military"
  /\ out = <<"Created LICENSE.txt", "Created forensic metadata file", ErrSkillMd>>
  /\ licenseTxt = File(LicenseContent(call))
  /\ metadata = SidecarOf(call)
  /\ skillMd = File(<<>>)

====
